---- MODULE Spec2Model ----
(***************************************************************************)
(* World Bank stock-return loader (src/src/worldbank_data.py).             *)
(*                                                                         *)
(* The data file is an input that the program only reads.  Each operation  *)
(* reloads it, so the state is the file plus the outcome of the call the   *)
(* caller is looking at.  Calls are synchronous: the caller issues one,    *)
(* gets its outcome (Return hands control back) and issues the next.       *)
(*                                                                         *)
(* Numbers.  The program computes with IEEE doubles.  The model computes   *)
(* with exact fractions.  A percentage is stored in tenths of a percent    *)
(* (125 is 12.5), and the percentages of PctValues are multiples of 12.5,  *)
(* so that every factor 1 + pct/100 is a multiple of 1/8: on such values   *)
(* the double arithmetic of the program is exact and Python's round() is   *)
(* round-half-to-even on the exact value, which is what Round4 computes.   *)
(* A rounded value is an integer number of 1/10000 (10000 is 1.0).         *)
(*                                                                         *)
(* Errors.  The program raises ValueError("Country ... not found"),        *)
(* ValueError("No data available ..."), whatever read_csv/set_index raise  *)
(* (FileNotFoundError, parser errors, KeyError) and IndexError.  The       *)
(* model names them NotFoundError, EmptyDataError, DataAccessError and     *)
(* IndexError.                                                             *)
(*                                                                         *)
(* Entity names are sequences of character codes, compared as Python       *)
(* compares str.  Names are unique within a file (the table is keyed by    *)
(* entity name).                                                           *)
(***************************************************************************)
EXTENDS Integers, Sequences, FiniteSets, TLC

VARIABLES file, result

vars == <<file, result>>

----------------------------------------------------------------------------
(* Bounds of the explored inputs *)

\* a file has at most MaxCells data cells (rows times year columns)
MaxCells == 3

\* a header has at most MaxCols year columns
MaxCols == 3

\* a file has at most MaxRows data rows
MaxRows == 3

\* window sizes run over -MaxDrop .. MaxN
MaxN == 3

MaxDrop == 1

\* range(1960, 2025)
FirstYear == 1960

LastYear == 2024

\* "A", "AB", "B"
Names == {<<65>>, <<65, 66>>, <<66>>}

\* year labels a header may carry: three inside the range, one past it
ColLabels == (LastYear - 2)..(LastYear + 1)

\* -37.5 and 12.5, in tenths of a percent
PctValues == {-375, 125}

Empty == [kind |-> "nan", pct |-> 0]

Text == [kind |-> "text", pct |-> 0]

Num(p) == [kind |-> "num", pct |-> p]

CellValues == {Empty, Text} \cup {Num(p) : p \in PctValues}

Min(a, b) == IF a < b THEN a ELSE b

Range(s) == {s[i] : i \in 1..Len(s)}

Injective(s) == \A i, j \in DOMAIN s : s[i] = s[j] => i = j

\* the headers with c year columns: c consecutive labels, written in
\* ascending or in descending order
Headers(c) ==
  {[i \in 1..c |-> a + i - 1] : a \in {x \in ColLabels : x + c - 1 \in ColLabels}}
    \cup {[i \in 1..c |-> a - i + 1] : a \in {x \in ColLabels : x - c + 1 \in ColLabels}}

\* the orders in which r rows can carry distinct names
RowNames(r) == {x \in [1..r -> Names] : Injective(x)}

\* (year columns, data rows) of the explored files
Shapes == {x \in (0..MaxCols) \X (0..MaxRows) : x[1] * x[2] <= MaxCells}

\* a file that parses: header h, with or without the 'Country Name' column,
\* and one data row per name of nm with the cells cs
ParsedFile(hasIndex, h, nm, cs) ==
  [readable |-> TRUE, indexCol |-> hasIndex, columns |-> h,
   rows |-> [i \in DOMAIN nm |-> [name |-> nm[i], cells |-> cs[i]]]]

\* the file does not exist or cannot be parsed
MissingFile == [readable |-> FALSE, indexCol |-> FALSE, columns |-> <<>>, rows |-> <<>>]

----------------------------------------------------------------------------
(* Arithmetic *)

RECURSIVE GCD(_, _)
GCD(a, b) == IF b = 0 THEN a ELSE GCD(b, a % b)

Reduce(n, d) == LET g == GCD(n, d) IN [n |-> n \div g, d |-> d \div g]

Mul(x, y) == Reduce(x.n * y.n, x.d * y.d)

\* 1 + return_pct / 100, return_pct in tenths of a percent
Factor(pct) == Reduce(1000 + pct, 1000)

\* round(v, 4): nearest multiple of 1/10000, ties to even
Round4(x) ==
  LET g == GCD(10000, x.d)
      a == x.n * (10000 \div g)
      b == x.d \div g
      q == a \div b
      r == a % b
  IN  IF 2 * r < b THEN q
      ELSE IF 2 * r > b THEN q + 1
      ELSE IF q % 2 = 0 THEN q ELSE q + 1

----------------------------------------------------------------------------
(* load_worldbank_stock_data *)

YearRange == [i \in 1..(LastYear - FirstYear + 1) |-> FirstYear + i - 1]

ColPos(columns, y) == CHOOSE j \in 1..Len(columns) : columns[j] = y

\* year_cols: the years of the range, in range order, whose label is a column
YearCols(columns) ==
  LET labels == Range(columns)
  IN  SelectSeq(YearRange, LAMBDA y : y \in labels)

Failure(kind) ==
  [error |-> kind, index |-> <<>>, year_cols |-> <<>>, data |-> <<>>]

load_worldbank_stock_data(f) ==
  IF ~f.readable THEN Failure("DataAccessError")
  ELSE IF ~f.indexCol THEN Failure("DataAccessError")
  ELSE LET year_cols == YearCols(f.columns)
       IN  [error |-> "",
            index |-> [i \in 1..Len(f.rows) |-> f.rows[i].name],
            year_cols |-> year_cols,
            data |-> [i \in 1..Len(f.rows) |->
                       [k \in 1..Len(year_cols) |->
                         [year |-> year_cols[k],
                          value |-> f.rows[i].cells[ColPos(f.columns, year_cols[k])]]]]]

----------------------------------------------------------------------------
(* pandas and Python helpers *)

\* df.loc[country_name]
Loc(df, country_name) ==
  df.data[CHOOSE i \in 1..Len(df.index) : df.index[i] = country_name]

to_numeric_TextAsZero(row) ==
  [k \in 1..Len(row) |->
    [year |-> row[k].year,
     value |-> IF row[k].value.kind = "nan" THEN Empty
               ELSE IF row[k].value.kind = "text" THEN Num(0)
               ELSE row[k].value]]

\* pd.to_numeric(row, errors='coerce')
to_numeric(row) ==
  [k \in 1..Len(row) |->
    [year |-> row[k].year,
     value |-> IF row[k].value.kind = "num" THEN row[k].value ELSE Empty]]

dropna_KeepAll(s) == s

\* Series.dropna()
dropna(s) == SelectSeq(s, LAMBDA c : c.value.kind # "nan")

tail_Head(s, n) ==
  IF n = 0 THEN <<>>
  ELSE IF n > 0 THEN SubSeq(s, 1, Min(n, Len(s)))
  ELSE SubSeq(s, 1, Len(s) - Min(-n, Len(s)))

tail_OffByOne(s, n) ==
  IF n = 0 THEN <<>>
  ELSE IF n > 0 THEN SubSeq(s, Len(s) - Min(n - 1, Len(s)) + 1, Len(s))
  ELSE SubSeq(s, Min(-n, Len(s)) + 1, Len(s))

\* Series.tail(n): iloc[0:0] when n = 0, else iloc[-n:]
tail(s, n) ==
  IF n = 0 THEN <<>>
  ELSE IF n > 0 THEN SubSeq(s, Len(s) - Min(n, Len(s)) + 1, Len(s))
  ELSE SubSeq(s, Min(-n, Len(s)) + 1, Len(s))

RECURSIVE LexLess(_, _)
\* str < str
LexLess(a, b) ==
  IF a = <<>> THEN b # <<>>
  ELSE IF b = <<>> THEN FALSE
  ELSE IF a[1] # b[1] THEN a[1] < b[1]
  ELSE LexLess(Tail(a), Tail(b))

RECURSIVE Insert(_, _)
Insert(x, s) ==
  IF s = <<>> THEN <<x>>
  ELSE IF LexLess(x, s[1]) THEN <<x>> \o s
  ELSE <<s[1]>> \o Insert(x, Tail(s))

sorted_Unsorted(s) == s

RECURSIVE sorted(_)
\* sorted(list of str)
sorted(s) ==
  IF s = <<>> THEN <<>>
  ELSE Insert(s[Len(s)], sorted(SubSeq(s, 1, Len(s) - 1)))

----------------------------------------------------------------------------
(* get_country_stock_returns *)

One == [n |-> 1, d |-> 1]

RECURSIVE compounded_RoundEachStep(_)
compounded_RoundEachStep(returns) ==
  IF returns = <<>> THEN <<One>>
  ELSE LET prev == compounded_RoundEachStep(SubSeq(returns, 1, Len(returns) - 1))
       IN  Append(prev, Reduce(Round4(Mul(prev[Len(prev)], Factor(returns[Len(returns)]))), 10000))

RECURSIVE compounded_FromFirstReturn(_)
compounded_FromFirstReturn(returns) ==
  IF returns = <<>> THEN <<One>>
  ELSE IF Len(returns) = 1 THEN <<Factor(returns[1]), Factor(returns[1])>>
  ELSE LET prev == compounded_FromFirstReturn(SubSeq(returns, 1, Len(returns) - 1))
       IN  Append(prev, Mul(prev[Len(prev)], Factor(returns[Len(returns)])))

RECURSIVE compounded(_)
\* compounded_values before rounding: [1.0], then last * (1 + return_pct / 100)
compounded(returns) ==
  IF returns = <<>> THEN <<One>>
  ELSE LET prev == compounded(SubSeq(returns, 1, Len(returns) - 1))
       IN  Append(prev, Mul(prev[Len(prev)], Factor(returns[Len(returns)])))

NoSeries(kind) ==
  [error |-> kind, dates |-> <<>>, values |-> <<>>, years_list |-> <<>>, returns |-> <<>>]

\* the body of get_country_stock_returns once the row is found
SeriesOf(row, years) ==
  LET country_data == dropna(to_numeric(row))
  IN  IF Len(country_data) = 0 THEN NoSeries("EmptyDataError")
      ELSE LET kept == tail(country_data, years)
               years_list == [i \in 1..Len(kept) |-> kept[i].year]
               returns == [i \in 1..Len(kept) |-> kept[i].value.pct]
               unrounded == compounded(returns)
               compounded_values == [i \in 1..Len(unrounded) |-> Round4(unrounded[i])]
           IN  IF years_list = <<>> THEN NoSeries("IndexError")
               ELSE [error |-> "",
                     dates |-> <<years_list[1] - 1>> \o years_list,
                     values |-> compounded_values,
                     years_list |-> years_list,
                     returns |-> returns]

get_country_stock_returns_NoIndexCheck(country_name, years, f) ==
  LET df == load_worldbank_stock_data(f)
  IN  IF df.error # "" THEN NoSeries(df.error)
      ELSE IF country_name \notin Range(df.index) THEN NoSeries("KeyError")
      ELSE SeriesOf(Loc(df, country_name), years)

get_country_stock_returns(country_name, years, f) ==
  LET df == load_worldbank_stock_data(f)
  IN  IF df.error # "" THEN NoSeries(df.error)
      ELSE IF country_name \notin Range(df.index) THEN NoSeries("NotFoundError")
      ELSE SeriesOf(Loc(df, country_name), years)

----------------------------------------------------------------------------
(* get_available_countries *)

HasData_NoCoerce(row) == \E k \in 1..Len(row) : row[k].value.kind # "nan"

\* pd.to_numeric(df.loc[country], errors='coerce').notna().any()
HasData(row) ==
  LET country_data == to_numeric(row)
  IN  \E k \in 1..Len(country_data) : country_data[k].value.kind # "nan"

get_available_countries(f) ==
  LET df == load_worldbank_stock_data(f)
  IN  IF df.error # "" THEN [error |-> df.error, countries |-> <<>>]
      ELSE LET countries_with_data ==
                 SelectSeq(df.index, LAMBDA country : HasData(Loc(df, country)))
           IN  [error |-> "", countries |-> sorted(countries_with_data)]

----------------------------------------------------------------------------
(* The calls *)

NoCall ==
  [op |-> "none", country_name |-> <<>>, years |-> 0, error |-> "",
   year_cols |-> <<>>, countries |-> <<>>,
   dates |-> <<>>, values |-> <<>>, years_list |-> <<>>, returns |-> <<>>]

Init ==
  /\ \/ file = MissingFile
     \/ \E sh \in Shapes :
          \E h \in Headers(sh[1]), nm \in RowNames(sh[2]),
             cs \in [1..sh[2] -> [1..sh[1] -> CellValues]],
             hasIndex \in (IF sh = <<1, 1>> THEN BOOLEAN ELSE {TRUE}) :
            file = ParsedFile(hasIndex, h, nm, cs)
  /\ result = NoCall

LoadTable ==
  /\ result.op = "none"
  /\ LET df == load_worldbank_stock_data(file)
     IN  result' = [NoCall EXCEPT !.op = "load", !.error = df.error,
                                  !.year_cols = df.year_cols]
  /\ UNCHANGED file

ListEntities ==
  /\ result.op = "none"
  /\ LET r == get_available_countries(file)
     IN  result' = [NoCall EXCEPT !.op = "list", !.error = r.error,
                                  !.countries = r.countries]
  /\ UNCHANGED file

GetEntitySeries ==
  /\ result.op = "none"
  /\ \E country_name \in Names, years \in (-MaxDrop)..MaxN :
       LET r == get_country_stock_returns(country_name, years, file)
       IN  result' = [NoCall EXCEPT !.op = "get", !.country_name = country_name,
                                    !.years = years, !.error = r.error,
                                    !.dates = r.dates, !.values = r.values,
                                    !.years_list = r.years_list,
                                    !.returns = r.returns]
  /\ UNCHANGED file

\* the caller has consumed the outcome
Return ==
  /\ result.op # "none"
  /\ result' = NoCall
  /\ UNCHANGED file

Next == LoadTable \/ ListEntities \/ GetEntitySeries \/ Return

Spec == Init /\ [][Next]_vars

----------------------------------------------------------------------------
(* What the file holds, read off the file itself *)

\* the file parses and has the entity-name column
Loads == file.readable /\ file.indexCol

InTable(name) == \E i \in 1..Len(file.rows) : file.rows[i].name = name

FileRow(name) == file.rows[CHOOSE i \in 1..Len(file.rows) : file.rows[i].name = name]

\* the cell of the entity under the column labelled y
CellAt(name, y) ==
  FileRow(name).cells[CHOOSE j \in 1..Len(file.columns) : file.columns[j] = y]

\* the years of the table at which the entity has a numeric value
NumericYears(name) ==
  {y \in Range(file.columns) :
     /\ y >= FirstYear
     /\ y <= LastYear
     /\ CellAt(name, y).kind = "num"}

Observations(name) == Cardinality(NumericYears(name))

\* the maximal run of consecutive years with a numeric value that ends at the
\* entity's last such year
TrailingRun(name) ==
  {y \in NumericYears(name) :
     \A z \in y..LastYear :
       (\E w \in NumericYears(name) : w >= z) => z \in NumericYears(name)}

\* a call of get_country_stock_returns has returned a series
Returned == result.op = "get" /\ result.error = ""

\* a call of get_country_stock_returns on an entity of the table that has
\* numeric observations, with a window of at least one
ValidCall ==
  /\ result.op = "get"
  /\ Loads
  /\ InTable(result.country_name)
  /\ Observations(result.country_name) >= 1
  /\ result.years >= 1

\* the kept percentage behind the i-th step of the returned series
KeptPct(i) == CellAt(result.country_name, result.dates[i + 1]).pct

RECURSIVE Product(_)
\* the exact product of the first n growth factors of the returned series
Product(n) == IF n = 0 THEN One ELSE Mul(Factor(KeptPct(n)), Product(n - 1))

\* round(value * (1 + pct / 100), 4) for a returned, already rounded, value
RoundedStep(value, pct) == Round4(Mul(Reduce(value, 10000), Factor(pct)))

\* a precedes b, or equals it, in lexicographic order
StrLeq(a, b) ==
  \/ a = b
  \/ \E k \in 1..Len(b) :
       /\ k <= Len(a) + 1
       /\ \A j \in 1..(k - 1) : a[j] = b[j]
       /\ (k = Len(a) + 1 \/ a[k] < b[k])

----------------------------------------------------------------------------
(* Claims *)

\* C1: for an entity of the table with k >= 1 numeric observations and a
\* window N >= 1, get_entity_series returns min(N, k) + 1 years and
\* min(N, k) + 1 values.
C1_SeriesLength ==
  ValidCall =>
    /\ result.error = ""
    /\ Len(result.dates) = Min(result.years, Observations(result.country_name)) + 1
    /\ Len(result.values) = Min(result.years, Observations(result.country_name)) + 1

\* a window smaller than the number of observations was served
C1_Witness ==
  /\ ValidCall
  /\ Observations(result.country_name) > result.years
  /\ Len(result.dates) = result.years + 1

\* C2 as stated: every returned value is the previous returned (rounded)
\* value times (1 + pct/100), rounded to 4 decimals.
C2_StepFromRounded ==
  Returned =>
    \A i \in 1..(Len(result.values) - 1) :
      result.values[i + 1] = RoundedStep(result.values[i], KeptPct(i))

\* C2 amended: every returned value is the unrounded compounded value before
\* it times (1 + pct/100), rounded to 4 decimals; the values are compounded
\* unrounded and rounded once at the end.
C2_StepFromUnrounded ==
  Returned =>
    \A i \in 1..(Len(result.values) - 1) :
      result.values[i + 1] = Round4(Mul(Product(i - 1), Factor(KeptPct(i))))

\* a series of three steps whose last value is not the rounded step from the
\* rounded value before it
C2_Witness ==
  /\ Returned
  /\ Len(result.values) = 4
  /\ result.values[4] # RoundedStep(result.values[3], KeptPct(3))

\* C3: the first value of every returned series is exactly 1.0.
C3_Baseline == Returned => result.values[1] = 10000

\* a series whose second value is not 1.0
C3_Witness ==
  /\ Returned
  /\ Len(result.values) >= 2
  /\ result.values[2] # 10000

\* C4: list_entities returns its names in ascending lexicographic order, and
\* they are exactly the entities of the table with a numeric value.
C4_ListEntities ==
  (result.op = "list" /\ result.error = "") =>
    /\ \A i \in 1..(Len(result.countries) - 1) :
         StrLeq(result.countries[i], result.countries[i + 1])
    /\ Range(result.countries) =
         {name \in Names : InTable(name) /\ NumericYears(name) # {}}

\* two entities listed in an order that is not the file's, a third left out
C4_Witness ==
  /\ result.op = "list"
  /\ Len(result.countries) = 2
  /\ Len(file.rows) = 3
  /\ \E i, j \in 1..3 :
       /\ i < j
       /\ file.rows[i].name = result.countries[2]
       /\ file.rows[j].name = result.countries[1]

\* C5: an entity name that is not in the table's index raises NotFoundError
\* for every window size, and no series is returned.
C5_NotFound ==
  (result.op = "get" /\ Loads /\ ~InTable(result.country_name)) =>
    /\ result.error = "NotFoundError"
    /\ result.dates = <<>>
    /\ result.values = <<>>

\* an unknown name was asked of a table with other entities, with window 0
C5_Witness ==
  /\ result.op = "get"
  /\ Loads
  /\ Len(file.rows) >= 1
  /\ ~InTable(result.country_name)
  /\ result.years = 0
  /\ result.error = "NotFoundError"

\* C6: an entity of the table whose row has no numeric value raises
\* EmptyDataError for every window size, and no series is returned.
C6_EmptyData ==
  (result.op = "get" /\ Loads /\ InTable(result.country_name)
     /\ NumericYears(result.country_name) = {}) =>
    /\ result.error = "EmptyDataError"
    /\ result.dates = <<>>
    /\ result.values = <<>>

\* an entity whose only in-range cells are non-numeric text was asked for
C6_Witness ==
  /\ result.op = "get"
  /\ Loads
  /\ InTable(result.country_name)
  /\ \E y \in Range(file.columns) :
       /\ y >= FirstYear
       /\ y <= LastYear
       /\ CellAt(result.country_name, y) = Text
  /\ NumericYears(result.country_name) = {}
  /\ result.error = "EmptyDataError"

\* C7: a call that fails raises DataAccessError, NotFoundError or
\* EmptyDataError, and nothing else.
C7_ErrorKinds ==
  result.error \in {"", "DataAccessError", "NotFoundError", "EmptyDataError"}

\* C8: for a valid call the kept (year, value) pairs are the last min(N, k)
\* numeric pairs of the row in ascending year order, and the returned years
\* are the baseline year followed by the kept years, strictly increasing.
C8_LastPairs ==
  ValidCall =>
    LET m == Min(result.years, Observations(result.country_name))
    IN  /\ result.error = ""
        /\ Len(result.years_list) = m
        /\ Len(result.returns) = m
        /\ \A i \in 1..m :
             /\ result.years_list[i] \in NumericYears(result.country_name)
             /\ Cardinality({y \in NumericYears(result.country_name) :
                               y > result.years_list[i]}) = m - i
             /\ result.returns[i] = CellAt(result.country_name, result.years_list[i]).pct
        /\ result.dates = <<result.years_list[1] - 1>> \o result.years_list
        /\ \A i \in 1..(Len(result.dates) - 1) : result.dates[i] < result.dates[i + 1]

\* both observations around a non-numeric cell were kept
C8_Witness ==
  /\ ValidCall
  /\ result.years = 2
  /\ Observations(result.country_name) = 2
  /\ Len(result.dates) = 3
  /\ result.dates[3] = result.dates[2] + 2
  /\ \E j \in 1..Len(file.columns) : file.columns[j] = result.dates[2] + 1

\* C9 as stated: every non-baseline year returned lies in the trailing run of
\* consecutive years with a numeric value.
C9_TrailingContiguous ==
  Returned =>
    \A i \in 2..Len(result.dates) : result.dates[i] \in TrailingRun(result.country_name)

\* C9 amended: every non-baseline year returned is a year at which the entity
\* has a numeric value, and no later year with a numeric value is left out;
\* the years need not be consecutive.
C9_TrailingObservations ==
  Returned =>
    /\ \A i \in 2..Len(result.dates) :
         result.dates[i] \in NumericYears(result.country_name)
    /\ \A y \in NumericYears(result.country_name) :
         y > result.dates[2] => \E i \in 2..Len(result.dates) : result.dates[i] = y

\* a returned year that lies before a gap in the entity's observations
C9_Witness ==
  /\ Returned
  /\ \E i \in 2..Len(result.dates) :
       result.dates[i] \notin TrailingRun(result.country_name)

\* C10: for a window N >= 1, get_entity_series returns a series for every
\* entity list_entities returns, and raises EmptyDataError for every other
\* entity of the table.
C10_ListAgreesWithSeries ==
  (result.op = "get" /\ Loads /\ InTable(result.country_name) /\ result.years >= 1) =>
    LET listed == Range(get_available_countries(file).countries)
    IN  /\ result.country_name \in listed => result.error = ""
        /\ result.country_name \notin listed => result.error = "EmptyDataError"

\* an entity with a non-numeric text cell that list_entities leaves out
C10_Witness ==
  /\ result.op = "get"
  /\ Loads
  /\ InTable(result.country_name)
  /\ result.years >= 1
  /\ \E j \in 1..Len(file.columns) : FileRow(result.country_name).cells[j] = Text
  /\ result.country_name \notin Range(get_available_countries(file).countries)
  /\ result.error = "EmptyDataError"

====
